---- MODULE Spec2Model ----
(***************************************************************************)
(* A model of the two programs of the repository:                          *)
(*                                                                         *)
(*   .skelly/default_agent.py    the Responder: one JSON document read     *)
(*                               from standard input, one templated JSON   *)
(*                               object written to standard output;        *)
(*   fixtures/python/edge_cases.py   normalize, Runner.run and use_path.   *)
(*                                                                         *)
(* Spec      runs the Responder, one statement of the script per action.   *)
(* SpecText  applies normalize and Runner.run, repeatedly, to strings.     *)
(* SpecPath  interleaves changes of the working directory with calls of    *)
(*           use_path.                                                     *)
(***************************************************************************)
EXTENDS Integers, Sequences, FiniteSets, TLC

VARIABLES
    \* ---- the Responder (default_agent.py)
    sent,       \* the document the caller serialised onto stdin, or Garbage
    stdin,      \* the text on standard input, as its sequence of lexemes
    pc,         \* the statement the script is at
    request,    \* line 5
    symbol,     \* line 6
    name,       \* line 7
    kind,       \* line 8
    path,       \* line 9
    response,   \* lines 11-16
    stdout,     \* everything written to standard output
    stderr,     \* the exception an unhandled failure reports
    status,     \* the exit status of the process; -1 while it runs
    \* ---- normalize and Runner.run (edge_cases.py); a string is its sequence of characters
    fn,         \* the function under call: "normalize" or "run"
    value,      \* the string the first call is given
    rets,       \* the successive return values: rets[1] = f(value), rets[2] = f(rets[1]), ...
    \* ---- use_path (edge_cases.py)
    cwd,        \* the working directory of the process: the directory names from the root down
    got,        \* the values the calls of use_path returned, in order
    nsteps      \* the changes of the working directory so far

agentVars == <<sent, stdin, pc, request, symbol, name, kind, path, response,
               stdout, stderr, status>>
textVars  == <<fn, value, rets>>
pathVars  == <<cwd, got, nsteps>>
vars      == <<agentVars, textVars, pathVars>>

----------------------------------------------------------------------------
(* Bounds of the model.                                                    *)

\* the integers of the input documents are 0 .. MaxInt
MaxInt == 1
\* the strings given to normalize and Runner.run have at most MaxLen characters
MaxLen == 4
\* each function is applied to its own result up to MaxApply times in a row
MaxApply == 3
\* directories nest MaxDepth deep below the root
MaxDepth == 2
\* at most MaxCalls calls of use_path in a run
MaxCalls == 2
\* at most MaxChdir changes of the working directory in a run
MaxChdir == 3

----------------------------------------------------------------------------
(* Python values, as json.load builds them and as the script handles them. *)
(* A float is held as its repr: "0.0", "1.5", "100.0", "nan", "inf", "-inf". *)
(* Two values too large to spell out are held by their size: the int 10^(d-1), *)
(* of d digits, and n lists nested one in another, the innermost empty.    *)

None       == [t |-> "none"]
PyBool(b)  == [t |-> "bool", b |-> b]
PyInt(n)   == [t |-> "int", n |-> n]
PyFloat(f) == [t |-> "float", f |-> f]
PyBigInt(d) == [t |-> "bigint", digits |-> d]
PyNest(n)  == [t |-> "nest", n |-> n]
PyStr(s)   == [t |-> "str", s |-> s]
PyList(l)  == [t |-> "list", items |-> l]
\* a dict keeps its keys in insertion order
PyDict(k, v) == [t |-> "dict", keys |-> k, vals |-> v]
EmptyDict  == PyDict(<<>>, <<>>)

\* no value at all: a variable not yet bound
Unbound == [t |-> "unbound"]
\* what the caller sent when it did not serialise a document
Garbage == [t |-> "garbage"]

HasKey(d, k) == \E i \in 1..Len(d.keys) : d.keys[i] = k

Lookup(d, k) == d.vals[CHOOSE i \in 1..Len(d.keys) : d.keys[i] = k]

\* d[k] = v: a key already there keeps its place and takes the new value
DictSet(d, k, v) ==
    IF HasKey(d, k)
    THEN PyDict(d.keys, [i \in 1..Len(d.keys) |-> IF d.keys[i] = k THEN v ELSE d.vals[i]])
    ELSE PyDict(Append(d.keys, k), Append(d.vals, v))

\* a slip for Truthy: the test `v is not None`, by which only None is falsy
TruthyUnlessNone(v) == v.t # "none"

\* bool(v): None, False, 0, 0.0, "", [] and {} are falsy; nan and inf are truthy
Truthy(v) ==
    CASE v.t = "none" -> FALSE
      [] v.t = "bool" -> v.b
      [] v.t = "int"  -> v.n # 0
      [] v.t = "float" -> v.f \notin {"0.0", "-0.0"}
      [] v.t = "bigint" -> TRUE
      [] v.t = "nest" -> v.n > 1
      [] v.t = "str"  -> v.s # ""
      [] v.t = "list" -> v.items # <<>>
      [] v.t = "dict" -> v.keys # <<>>

\* a slip for Or: the `or {}` left out
OrKeepsLeft(a, b) == a

\* a or b
Or(a, b) == IF Truthy(a) THEN a ELSE b

\* only a dict has a .get attribute; on anything else the lookup raises AttributeError
HasGet(v) == v.t = "dict"

\* d.get(k): None when the key is missing
Get(d, k) == IF HasKey(d, k) THEN Lookup(d, k) ELSE None

\* a slip for GetDefault: `d.get(k) or default` for a null, the default for null too
GetDefaultNullAsMissing(d, k, default) ==
    IF HasKey(d, k) /\ Lookup(d, k) # None THEN Lookup(d, k) ELSE default

\* d.get(k, default): the default only when the key is missing
GetDefault(d, k, default) == IF HasKey(d, k) THEN Lookup(d, k) ELSE default

----------------------------------------------------------------------------
(* Standard input.  The text is held as its sequence of JSON lexemes; a    *)
(* "word" is a run of characters that is no JSON lexeme (not, json, NaN,   *)
(* ...).  Two lexemes stand for texts too long to spell out: an integer    *)
(* literal of a given number of digits, and a run of arrays nested one in  *)
(* another.                                                                *)

Punct(k)    == [k |-> k]
IntTok(n)   == [k |-> "int", n |-> n]
\* a number literal with a fraction or an exponent: 0.0, 1.5, 1e2
FloatTok(s) == [k |-> "float", s |-> s]
StrTok(s)   == [k |-> "str", s |-> s]
WordTok(s)  == [k |-> "word", s |-> s]
\* the integer literal 1 followed by d - 1 zeros
BigIntTok(d) == [k |-> "bigint", digits |-> d]
\* n times "[" and then n times "]"
NestTok(n)  == [k |-> "nest", n |-> n]

\* sys.int_info.default_max_str_digits: int() of a longer literal raises ValueError
MaxStrDigits == 4300

\* the containers json.load decodes one inside the other before the interpreter's
\* recursion limit of 1000 is met, the frames of the call taken off: decoding a
\* container nested deeper raises RecursionError
MaxNesting == 994

\* the result of a parse: the value and the position after it, or the exception raised
Parsed(v, j)     == [ok |-> TRUE, val |-> v, next |-> j, exc |-> ""]
Failure(exc, i)  == [ok |-> FALSE, val |-> None, next |-> i, exc |-> exc]
ParseError(i)    == Failure("JSONDecodeError", i)

IsTok(toks, i, k) == i <= Len(toks) /\ toks[i].k = k

\* float(literal), as its repr
FloatOf(lit) ==
    CASE lit = "1e2" -> "100.0"
      [] OTHER       -> lit

\* the constants json takes for numbers though they are no JSON
Constants == {"NaN", "Infinity", "-Infinity"}

ConstantOf(word) ==
    CASE word = "NaN"       -> "nan"
      [] word = "Infinity"  -> "inf"
      [] word = "-Infinity" -> "-inf"

RECURSIVE ParseValue(_, _, _), ParseItems(_, _, _, _), ParseMembers(_, _, _, _)

\* one JSON value starting at lexeme i, inside depth containers
ParseValue(toks, i, depth) ==
    IF i > Len(toks) THEN ParseError(i)
    ELSE LET k == toks[i].k IN
         CASE k = "null"  -> Parsed(None, i + 1)
           [] k = "true"  -> Parsed(PyBool(TRUE), i + 1)
           [] k = "false" -> Parsed(PyBool(FALSE), i + 1)
           [] k = "int"   -> Parsed(PyInt(toks[i].n), i + 1)
           [] k = "float" -> Parsed(PyFloat(FloatOf(toks[i].s)), i + 1)
           [] k = "bigint" -> IF toks[i].digits > MaxStrDigits
                              THEN Failure("ValueError", i)
                              ELSE Parsed(PyBigInt(toks[i].digits), i + 1)
           [] k = "word"  -> IF toks[i].s \in Constants
                             THEN Parsed(PyFloat(ConstantOf(toks[i].s)), i + 1)
                             ELSE ParseError(i)
           [] k = "str"   -> Parsed(PyStr(toks[i].s), i + 1)
           [] k = "nest"  -> IF depth + toks[i].n > MaxNesting
                             THEN Failure("RecursionError", i)
                             ELSE Parsed(PyNest(toks[i].n), i + 1)
           [] k = "["     -> IF depth + 1 > MaxNesting THEN Failure("RecursionError", i)
                             ELSE IF IsTok(toks, i + 1, "]")
                             THEN Parsed(PyList(<<>>), i + 2)
                             ELSE ParseItems(toks, i + 1, <<>>, depth + 1)
           [] k = "{"     -> IF depth + 1 > MaxNesting THEN Failure("RecursionError", i)
                             ELSE IF IsTok(toks, i + 1, "}")
                             THEN Parsed(EmptyDict, i + 2)
                             ELSE ParseMembers(toks, i + 1, EmptyDict, depth + 1)
           [] OTHER       -> ParseError(i)

\* The value parsed at a position is bound by r \in {...}: each nested value is
\* then parsed once, however often its result is read.

\* the items of an array from lexeme i on, acc being the items before
ParseItems(toks, i, acc, depth) ==
    CHOOSE out \in
        { IF ~r.ok THEN r
          ELSE IF IsTok(toks, r.next, ",")
               THEN ParseItems(toks, r.next + 1, Append(acc, r.val), depth)
          ELSE IF IsTok(toks, r.next, "]")
               THEN Parsed(PyList(Append(acc, r.val)), r.next + 1)
          ELSE ParseError(r.next)
          : r \in {ParseValue(toks, i, depth)} } : TRUE

\* the members of an object from lexeme i on, acc being the members before;
\* of two members with one key the later value wins
ParseMembers(toks, i, acc, depth) ==
    IF ~(IsTok(toks, i, "str") /\ IsTok(toks, i + 1, ":")) THEN ParseError(i)
    ELSE CHOOSE out \in
        { IF ~r.ok THEN r
          ELSE IF IsTok(toks, r.next, ",")
               THEN ParseMembers(toks, r.next + 1, DictSet(acc, toks[i].s, r.val), depth)
          ELSE IF IsTok(toks, r.next, "}")
               THEN Parsed(DictSet(acc, toks[i].s, r.val), r.next + 1)
          ELSE ParseError(r.next)
          : r \in {ParseValue(toks, i + 2, depth)} } : TRUE

\* json.load(sys.stdin): one value and then the end of the text; else
\* JSONDecodeError, or the ValueError or RecursionError met on the way
JsonLoad(toks) ==
    LET r == ParseValue(toks, 1, 0) IN
    IF r.ok /\ r.next = Len(toks) + 1 THEN r
    ELSE IF r.ok THEN ParseError(r.next) ELSE r

----------------------------------------------------------------------------
(* Formatting.  The strings of the model hold printable ASCII other than   *)
(* the quotes and the backslash: str, repr and json.dumps copy every such  *)
(* character as it is.                                                     *)

RECURSIVE Join(_, _)
\* sep.join(parts)
Join(parts, sep) ==
    IF parts = <<>> THEN ""
    ELSE IF Len(parts) = 1 THEN parts[1]
    ELSE parts[1] \o sep \o Join(Tail(parts), sep)

RECURSIVE Times(_, _)
\* s * n
Times(str, n) ==
    IF n <= 0 THEN ""
    ELSE CHOOSE out \in { h \o h \o (IF n % 2 = 1 THEN str ELSE "")
                          : h \in {Times(str, n \div 2)} } : TRUE

RECURSIVE Repr(_)
\* repr(v)
Repr(v) ==
    CASE v.t = "none" -> "None"
      [] v.t = "bool" -> IF v.b THEN "True" ELSE "False"
      [] v.t = "int"  -> ToString(v.n)
      [] v.t = "float" -> v.f
      [] v.t = "bigint" -> "1" \o Times("0", v.digits - 1)
      [] v.t = "nest" -> Times("[", v.n) \o Times("]", v.n)
      [] v.t = "str"  -> "'" \o v.s \o "'"
      [] v.t = "list" -> "[" \o Join([i \in 1..Len(v.items) |-> Repr(v.items[i])], ", ") \o "]"
      [] v.t = "dict" -> "{" \o Join([i \in 1..Len(v.keys) |->
                                        "'" \o v.keys[i] \o "': " \o Repr(v.vals[i])], ", ") \o "}"

\* format(v, ""), what an f-string puts for {v}: str(v), which is repr(v) but for a str
Format(v) == IF v.t = "str" THEN v.s ELSE Repr(v)

RECURSIVE JsonDumps(_)
\* json.dumps(v) with the default separators ", " and ": "
JsonDumps(v) ==
    CASE v.t = "none" -> "null"
      [] v.t = "bool" -> IF v.b THEN "true" ELSE "false"
      [] v.t = "int"  -> ToString(v.n)
      [] v.t = "float" -> CASE v.f = "nan"  -> "NaN"
                            [] v.f = "inf"  -> "Infinity"
                            [] v.f = "-inf" -> "-Infinity"
                            [] OTHER        -> v.f
      [] v.t = "bigint" -> "1" \o Times("0", v.digits - 1)
      [] v.t = "nest" -> Times("[", v.n) \o Times("]", v.n)
      [] v.t = "str"  -> "\"" \o v.s \o "\""
      [] v.t = "list" -> "[" \o Join([i \in 1..Len(v.items) |-> JsonDumps(v.items[i])], ", ") \o "]"
      [] v.t = "dict" -> "{" \o Join([i \in 1..Len(v.keys) |->
                                        "\"" \o v.keys[i] \o "\": " \o JsonDumps(v.vals[i])], ", ") \o "}"

----------------------------------------------------------------------------
(* The documents and texts a caller may put on standard input.             *)

IntPool == 0..MaxInt
StrPool == {"", "Widget", "function", "pkg/widget.py"}

Scalars == {None, PyBool(TRUE), PyBool(FALSE)}
               \cup {PyInt(n) : n \in IntPool} \cup {PyStr(s) : s \in StrPool}

\* the constants NaN, Infinity and -Infinity, which are no JSON
NonFinite == {PyFloat("nan"), PyFloat("inf"), PyFloat("-inf")}

\* the values at and just over the limits of the interpreter, for a place
\* inside depth containers: an integer of MaxStrDigits digits and of one more,
\* arrays nested down to MaxNesting containers and one deeper
Large(depth) == {PyBigInt(MaxStrDigits), PyBigInt(MaxStrDigits + 1),
                 PyNest(MaxNesting - depth), PyNest(MaxNesting - depth + 1)}

\* the falsy and the truthy values of every JSON type
Atoms == Scalars \cup {PyList(<<>>), PyList(<<PyInt(0)>>), EmptyDict}
             \cup {PyFloat("0.0"), PyFloat("100.0"), PyFloat("nan"), PyList(<<PyFloat("nan")>>)}

\* the values a caller may give name, kind and path; Unbound: the member is left out
FieldVals == {Unbound, None, PyBool(TRUE), PyList(<<PyInt(0)>>)}
                 \cup {PyInt(n) : n \in IntPool} \cup {PyStr(s) : s \in StrPool}

\* more of them: floats, the constants that are no JSON, values at the limits
MoreFieldVals == {Unbound, PyFloat("1.5")} \cup NonFinite \cup Large(3)

\* the dict with the given members, less those whose value is Unbound
DictOf(pairs) ==
    LET there == SelectSeq(pairs, LAMBDA q : q[2] # Unbound)
    IN  PyDict([i \in 1..Len(there) |-> there[i][1]], [i \in 1..Len(there) |-> there[i][2]])

SymbolDicts == {DictOf(<<<<"name", n>>, <<"kind", k>>, <<"path", p>>>>) :
                    n \in FieldVals, k \in FieldVals, p \in FieldVals}
               \cup {DictOf(<<<<"name", n>>, <<"kind", k>>, <<"path", p>>>>) :
                    n \in MoreFieldVals, k \in MoreFieldVals, p \in MoreFieldVals}
               \cup {PyDict(<<"name", "other">>, <<None, y>>) : y \in Large(3)}

\* an object of a member the Responder does not read
Unrelated == PyDict(<<"other">>, <<None>>)

\* documents with such a member after `input`: a constant that is no JSON, a
\* value at the limits
Trailing == {PyDict(<<"other">>, <<PyFloat("nan")>>)}
                \cup {PyDict(<<"input", "other">>, <<x, y>>) :
                          x \in {None, PyInt(1)}, y \in Large(1)}

SymbolVals == Atoms \cup Large(2) \cup SymbolDicts \cup {Unrelated}
InputVals  == Atoms \cup Large(1) \cup {DictOf(<<<<"symbol", y>>>>) : y \in SymbolVals}
                  \cup {Unrelated}
Docs       == Atoms \cup Large(0) \cup {DictOf(<<<<"input", x>>>>) : x \in InputVals}
                  \cup {Unrelated} \cup Trailing

\* the literal of a float
LiteralOf(f) ==
    CASE f = "100.0" -> "1e2"
      [] f = "nan"   -> "NaN"
      [] f = "inf"   -> "Infinity"
      [] f = "-inf"  -> "-Infinity"
      [] OTHER       -> f

RECURSIVE Concat(_, _)
\* the sequences of parts, one after the other, with sep between them
Concat(parts, sep) ==
    IF parts = <<>> THEN <<>>
    ELSE IF Len(parts) = 1 THEN parts[1]
    ELSE parts[1] \o sep \o Concat(Tail(parts), sep)

RECURSIVE JsonLexemes(_)
\* the lexemes of the text of a document
JsonLexemes(v) ==
    CASE v.t = "none" -> <<Punct("null")>>
      [] v.t = "bool" -> <<Punct(IF v.b THEN "true" ELSE "false")>>
      [] v.t = "int"  -> <<IntTok(v.n)>>
      [] v.t = "float" -> IF v \in NonFinite THEN <<WordTok(LiteralOf(v.f))>>
                          ELSE <<FloatTok(LiteralOf(v.f))>>
      [] v.t = "bigint" -> <<BigIntTok(v.digits)>>
      [] v.t = "nest" -> <<NestTok(v.n)>>
      [] v.t = "str"  -> <<StrTok(v.s)>>
      [] v.t = "list" -> <<Punct("[")>>
                         \o Concat([i \in 1..Len(v.items) |-> JsonLexemes(v.items[i])],
                                   <<Punct(",")>>)
                         \o <<Punct("]")>>
      [] v.t = "dict" -> <<Punct("{")>>
                         \o Concat([i \in 1..Len(v.keys) |->
                                      <<StrTok(v.keys[i]), Punct(":")>> \o JsonLexemes(v.vals[i])],
                                   <<Punct(",")>>)
                         \o <<Punct("}")>>

DocTexts == {JsonLexemes(d) : d \in Docs}

\* texts that are no JSON: nothing at all, bare words, a document cut short or
\* run on, a trailing comma, a missing colon, an unquoted key
Malformed ==
    {<<>>, <<WordTok("not"), WordTok("json")>>,
     <<Punct("{"), StrTok("input"), Punct(":"), Punct("null"), Punct(","), Punct("}")>>,
     <<Punct("["), IntTok(0), Punct(","), Punct("]")>>,
     <<Punct("{"), StrTok("input"), Punct("null"), Punct("}")>>,
     <<Punct("{"), WordTok("input"), Punct(":"), Punct("null"), Punct("}")>>,
     <<Punct("{"), Punct("}"), Punct("}")>>}
    \cup {SubSeq(t, 1, Len(t) - 1) : t \in DocTexts}
    \cup {Append(t, WordTok("x")) : t \in DocTexts}

----------------------------------------------------------------------------
(* The Responder: default_agent.py, one statement per action.              *)

AgentInit ==
    /\ \/ \E d \in Docs : sent = d /\ stdin = JsonLexemes(d)
       \/ sent = Garbage /\ stdin \in Malformed
    /\ pc = "load"
    /\ request = Unbound
    /\ symbol = Unbound
    /\ name = Unbound
    /\ kind = Unbound
    /\ path = Unbound
    /\ response = Unbound
    /\ stdout = ""
    /\ stderr = ""
    /\ status = -1

\* the outcome of evaluating an expression: a value, or an exception raised
Value(v)    == [raised |-> FALSE, val |-> v, exc |-> ""]
Raised(exc) == [raised |-> TRUE, val |-> Unbound, exc |-> exc]

\* an exception nothing handles ends the process: the traceback goes to stderr,
\* nothing more to stdout, and the exit status is 1
Uncaught(exc) ==
    /\ pc' = "exited"
    /\ stderr' = exc
    /\ status' = 1
    /\ stdout' = stdout

\* line 5, the right-hand side: json.load(sys.stdin)
LoadExpr(text) ==
    LET r == JsonLoad(text)
    IN  IF r.ok THEN Value(r.val) ELSE Raised(r.exc)

\* line 6, the right-hand side: ((request.get("input") or {}).get("symbol") or {})
SymbolExpr(req) ==
    IF ~HasGet(req) THEN Raised("AttributeError")
    ELSE LET inp == Or(Get(req, "input"), EmptyDict)
         IN  IF ~HasGet(inp) THEN Raised("AttributeError")
             ELSE Value(Or(Get(inp, "symbol"), EmptyDict))

\* lines 7-9, the right-hand side: symbol.get(key, default)
FieldExpr(sym, key, default) ==
    IF ~HasGet(sym) THEN Raised("AttributeError")
    ELSE Value(GetDefault(sym, key, PyStr(default)))

\* a slip for ResponseExpr: the last key left out
ResponseWithoutConfidence(n, k, p) ==
    PyDict(<<"summary", "purpose", "side_effects">>,
           <<PyStr(Format(k) \o " " \o Format(n) \o " in " \o Format(p) \o "."),
             PyStr("Describe responsibilities of " \o Format(n) \o "."),
             PyStr("Unknown from static analysis.")>>)

\* a slip for ResponseExpr: name and kind the wrong way round in the summary
ResponseNameKindSwapped(n, k, p) ==
    PyDict(<<"summary", "purpose", "side_effects", "confidence">>,
           <<PyStr(Format(n) \o " " \o Format(k) \o " in " \o Format(p) \o "."),
             PyStr("Describe responsibilities of " \o Format(n) \o "."),
             PyStr("Unknown from static analysis."),
             PyStr("medium")>>)

\* lines 11-16: the response dict, its keys in the order written
ResponseExpr(n, k, p) ==
    PyDict(<<"summary", "purpose", "side_effects", "confidence">>,
           <<PyStr(Format(k) \o " " \o Format(n) \o " in " \o Format(p) \o "."),
             PyStr("Describe responsibilities of " \o Format(n) \o "."),
             PyStr("Unknown from static analysis."),
             PyStr("medium")>>)

\* line 17: what print(json.dumps(response)) writes
PrintedLine(resp) == JsonDumps(resp) \o "\n"

\* line 5: request = json.load(sys.stdin)
Load ==
    /\ pc = "load"
    /\ LET r == LoadExpr(stdin)
       IN  IF r.raised
           THEN Uncaught(r.exc) /\ UNCHANGED request
           ELSE /\ request' = r.val
                /\ pc' = "symbol"
                /\ UNCHANGED <<stdout, stderr, status>>
    /\ UNCHANGED <<sent, stdin, symbol, name, kind, path, response>>
    /\ UNCHANGED <<textVars, pathVars>>

\* line 6: symbol = ...
BindSymbol ==
    /\ pc = "symbol"
    /\ LET r == SymbolExpr(request)
       IN  IF r.raised
           THEN Uncaught(r.exc) /\ UNCHANGED symbol
           ELSE /\ symbol' = r.val
                /\ pc' = "name"
                /\ UNCHANGED <<stdout, stderr, status>>
    /\ UNCHANGED <<sent, stdin, request, name, kind, path, response>>
    /\ UNCHANGED <<textVars, pathVars>>

\* line 7: name = symbol.get("name", "symbol")
BindName ==
    /\ pc = "name"
    /\ LET r == FieldExpr(symbol, "name", "symbol")
       IN  IF r.raised
           THEN Uncaught(r.exc) /\ UNCHANGED name
           ELSE /\ name' = r.val
                /\ pc' = "kind"
                /\ UNCHANGED <<stdout, stderr, status>>
    /\ UNCHANGED <<sent, stdin, request, symbol, kind, path, response>>
    /\ UNCHANGED <<textVars, pathVars>>

\* line 8: kind = symbol.get("kind", "symbol")
BindKind ==
    /\ pc = "kind"
    /\ LET r == FieldExpr(symbol, "kind", "symbol")
       IN  IF r.raised
           THEN Uncaught(r.exc) /\ UNCHANGED kind
           ELSE /\ kind' = r.val
                /\ pc' = "path"
                /\ UNCHANGED <<stdout, stderr, status>>
    /\ UNCHANGED <<sent, stdin, request, symbol, name, path, response>>
    /\ UNCHANGED <<textVars, pathVars>>

\* line 9: path = symbol.get("path", "")
BindPath ==
    /\ pc = "path"
    /\ LET r == FieldExpr(symbol, "path", "")
       IN  IF r.raised
           THEN Uncaught(r.exc) /\ UNCHANGED path
           ELSE /\ path' = r.val
                /\ pc' = "response"
                /\ UNCHANGED <<stdout, stderr, status>>
    /\ UNCHANGED <<sent, stdin, request, symbol, name, kind, response>>
    /\ UNCHANGED <<textVars, pathVars>>

\* lines 11-16: response = {...}
BuildResponse ==
    /\ pc = "response"
    /\ response' = ResponseExpr(name, kind, path)
    /\ pc' = "print"
    /\ UNCHANGED <<sent, stdin, request, symbol, name, kind, path, stdout, stderr, status>>
    /\ UNCHANGED <<textVars, pathVars>>

\* a slip for PrintResponse: the response printed twice
PrintResponseTwice ==
    /\ pc = "print"
    /\ stdout' = stdout \o PrintedLine(response) \o PrintedLine(response)
    /\ pc' = "end"
    /\ UNCHANGED <<sent, stdin, request, symbol, name, kind, path, response, stderr, status>>
    /\ UNCHANGED <<textVars, pathVars>>

\* line 17: print(json.dumps(response))
PrintResponse ==
    /\ pc = "print"
    /\ stdout' = stdout \o PrintedLine(response)
    /\ pc' = "end"
    /\ UNCHANGED <<sent, stdin, request, symbol, name, kind, path, response, stderr, status>>
    /\ UNCHANGED <<textVars, pathVars>>

\* the end of the script: the interpreter exits with status 0
Exit ==
    /\ pc = "end"
    /\ pc' = "exited"
    /\ status' = 0
    /\ UNCHANGED <<sent, stdin, request, symbol, name, kind, path, response, stdout, stderr>>
    /\ UNCHANGED <<textVars, pathVars>>

\* the fixture is not running
IdleText == fn = "none" /\ value = <<>> /\ rets = <<>>
IdlePath == cwd = <<>> /\ got = <<>> /\ nsteps = 0

Init == AgentInit /\ IdleText /\ IdlePath

Next == Load \/ BindSymbol \/ BindName \/ BindKind \/ BindPath \/ BuildResponse
             \/ PrintResponse \/ Exit

Spec == Init /\ [][Next]_vars

----------------------------------------------------------------------------
(* Properties of the Responder.  They are stated on the document the       *)
(* caller sent and on what the process left behind, in the words of the    *)
(* specification, not through the operators the script's model is made of. *)

Exited == pc = "exited"

\* a member of a document; Unbound when the document is no object or has no such member
Member(d, k) == IF d.t = "dict" /\ HasKey(d, k) THEN Lookup(d, k) ELSE Unbound

\* null, false, 0 and 0.0, "", [] and {}
FalsyJson == {None, PyBool(FALSE), PyInt(0), PyFloat("0.0"), PyStr(""), PyList(<<>>), EmptyDict}

RECURSIVE StrictJson(_)
\* the document is JSON: none of NaN, Infinity and -Infinity is in it
StrictJson(d) ==
    CASE d.t = "float" -> d \notin NonFinite
      [] d.t = "list"  -> \A i \in 1..Len(d.items) : StrictJson(d.items[i])
      [] d.t = "dict"  -> \A i \in 1..Len(d.vals) : StrictJson(d.vals[i])
      [] OTHER         -> TRUE

RECURSIVE Decodable(_, _)
\* json.load decodes the document, met inside depth containers: no integer of
\* it has more than MaxStrDigits digits and no container of it lies inside
\* MaxNesting others
Decodable(d, depth) ==
    CASE d.t = "bigint" -> d.digits <= MaxStrDigits
      [] d.t = "nest"   -> depth + d.n <= MaxNesting
      [] d.t = "list"   -> /\ depth + 1 <= MaxNesting
                           /\ \A i \in 1..Len(d.items) : Decodable(d.items[i], depth + 1)
      [] d.t = "dict"   -> /\ depth + 1 <= MaxNesting
                           /\ \A i \in 1..Len(d.vals) : Decodable(d.vals[i], depth + 1)
      [] OTHER          -> TRUE

WithinLimits == sent # Garbage /\ Decodable(sent, 0)

\* absent, falsy or an object: what the script takes for a mapping
MappingLike(v) == v = Unbound \/ v \in FalsyJson \/ v.t = "dict"

\* a non-zero number, true, a non-empty string or a non-empty array
TruthyNonObject(v) == v # Unbound /\ v \notin FalsyJson /\ v.t # "dict"

\* the `symbol` the script ends up reading: the member of the member, when both are objects
SentSymbol == Member(Member(sent, "input"), "symbol")

\* an object document whose `input` and `symbol` are absent, falsy or objects
WellShaped(d) ==
    /\ d.t = "dict"
    /\ MappingLike(Member(d, "input"))
    /\ MappingLike(Member(Member(d, "input"), "symbol"))

\* the line of output for the three texts put into the template
ResponseLine(k, n, p) ==
    "{\"summary\": \"" \o k \o " " \o n \o " in " \o p \o ".\", "
    \o "\"purpose\": \"Describe responsibilities of " \o n \o ".\", "
    \o "\"side_effects\": \"Unknown from static analysis.\", "
    \o "\"confidence\": \"medium\"}\n"

DefaultsLine == ResponseLine("symbol", "symbol", "")

\* a dict of exactly the four keys, in order, each with a string value
FourStringKeys(r) ==
    /\ r.t = "dict"
    /\ r.keys = <<"summary", "purpose", "side_effects", "confidence">>
    /\ \A i \in 1..Len(r.vals) : r.vals[i].t = "str"

\* the JSON text of such a dict, and a newline
ObjectLine(r) ==
    "{\"summary\": \"" \o r.vals[1].s \o "\", \"purpose\": \"" \o r.vals[2].s
    \o "\", \"side_effects\": \"" \o r.vals[3].s \o "\", \"confidence\": \""
    \o r.vals[4].s \o "\"}\n"

\* the process succeeded and its whole output is one response object
EmittedOne == status = 0 /\ FourStringKeys(response) /\ stdout = ObjectLine(response)

\* the process failed and wrote nothing
FailedSilently == status = 1 /\ stdout = ""

\* C1 as claimed: for every valid JSON document, of whatever type, the
\* Responder succeeds and emits an object of exactly the four string-valued keys.
EveryJsonDocumentAnswered == (Exited /\ sent # Garbage /\ StrictJson(sent)) => EmittedOne

\* C1 as amended: the Responder succeeds and emits the four-key object for every
\* valid JSON document that json.load decodes and that is an object whose
\* `input`, and the `symbol` of an object `input`, are absent, falsy or objects;
\* for every other valid JSON document it fails and writes nothing: with
\* ValueError or RecursionError when json.load does not decode it, else with
\* AttributeError.
WellShapedDocumentAnswered ==
    (Exited /\ sent # Garbage) =>
        IF ~WithinLimits THEN FailedSilently /\ stderr \in {"ValueError", "RecursionError"}
        ELSE IF WellShaped(sent) THEN EmittedOne /\ stderr = ""
        ELSE FailedSilently /\ stderr = "AttributeError"

WellShapedAnsweredWitness ==
    /\ Exited
    /\ sent = DictOf(<<<<"input", DictOf(<<<<"symbol",
                  DictOf(<<<<"name", PyInt(1)>>, <<"kind", None>>>>)>>>>)>>>>)
    /\ EmittedOne

\* the text the claim gives a field: the string when present as one, else the default
ClaimedField(key, default) ==
    LET v == Member(SentSymbol, key)
    IN  IF v # Unbound /\ v.t = "str" THEN v.s ELSE default

\* name, kind and path are each a string or absent
FieldsStringOrAbsent ==
    \A key \in {"name", "kind", "path"} :
        LET v == Member(SentSymbol, key) IN v = Unbound \/ v.t = "str"

ClaimedLine == ResponseLine(ClaimedField("kind", "symbol"), ClaimedField("name", "symbol"),
                            ClaimedField("path", ""))

\* C2 as claimed: whenever the input is a JSON object, the output is the
\* templated object, name, kind and path being the strings of input.symbol and
\* the defaults where they are absent.
ObjectInputTemplated ==
    (Exited /\ sent.t = "dict" /\ FieldsStringOrAbsent) => stdout = ClaimedLine

\* C2 as amended: the same, when the input is a JSON object that json.load
\* decodes and whose `input`, and the `symbol` of an object `input`, are absent,
\* falsy or objects.
WellShapedObjectTemplated ==
    (Exited /\ WithinLimits /\ WellShaped(sent) /\ FieldsStringOrAbsent) =>
        /\ status = 0
        /\ stdout = ClaimedLine
        /\ sent = EmptyDict => stdout =
              "{\"summary\": \"symbol symbol in .\", \"purpose\": \"Describe responsibilities of symbol.\", \"side_effects\": \"Unknown from static analysis.\", \"confidence\": \"medium\"}\n"

WidgetTemplatedWitness ==
    /\ Exited
    /\ sent = DictOf(<<<<"input", DictOf(<<<<"symbol",
                  DictOf(<<<<"name", PyStr("Widget")>>, <<"kind", PyStr("function")>>,
                           <<"path", PyStr("pkg/widget.py")>>>>)>>>>)>>>>)
    /\ stdout =
          "{\"summary\": \"function Widget in pkg/widget.py.\", \"purpose\": \"Describe responsibilities of Widget.\", \"side_effects\": \"Unknown from static analysis.\", \"confidence\": \"medium\"}\n"

\* absent or null
Missing(v) == v = Unbound \/ v = None

\* the `input` of an object document, or the `symbol` of an object `input`, is absent or null
MissingBelowDocument ==
    /\ sent.t = "dict"
    /\ \/ Missing(Member(sent, "input"))
       \/ Member(sent, "input").t = "dict" /\ Missing(SentSymbol)

\* C3 as claimed: a null document, an absent or null `input`, an absent or null
\* `symbol`: each is taken for an empty mapping, and the Responder succeeds with
\* the all-defaults response.
MissingAtAnyLevelDefaults ==
    (Exited /\ (sent = None \/ MissingBelowDocument)) =>
        status = 0 /\ stdout = DefaultsLine

\* C3 as amended: in a document that json.load decodes, an absent or null
\* `input` of an object document, and an absent or null `symbol` of an object
\* `input`, are taken for an empty mapping, and the Responder succeeds with the
\* all-defaults response; a null document is not: the Responder fails on it and
\* writes nothing.
MissingBelowDocumentDefaults ==
    /\ (Exited /\ WithinLimits /\ MissingBelowDocument) => status = 0 /\ stdout = DefaultsLine
    /\ (Exited /\ sent = None) => FailedSilently /\ stderr = "AttributeError"

NullSymbolDefaultsWitness ==
    /\ Exited
    /\ sent = DictOf(<<<<"input", DictOf(<<<<"symbol", None>>>>)>>>>)
    /\ stdout = DefaultsLine

\* name, kind and path are each a string, null or absent, and one of them is null
SomeFieldNull ==
    /\ SentSymbol # Unbound
    /\ SentSymbol.t = "dict"
    /\ \A key \in {"name", "kind", "path"} :
          LET v == Member(SentSymbol, key) IN v = Unbound \/ v = None \/ v.t = "str"
    /\ \E key \in {"name", "kind", "path"} : Member(SentSymbol, key) = None

\* the text of a field, a null one giving asNull and an absent one the default
FieldText(key, default, asNull) ==
    LET v == Member(SentSymbol, key)
    IN  IF v = Unbound THEN default ELSE IF v = None THEN asNull ELSE v.s

\* C4 as claimed: a null name, kind or path is no error and resolves as a
\* missing one does: to "symbol", "symbol" and "".
NullFieldDefaults ==
    (Exited /\ SomeFieldNull) =>
        /\ status = 0
        /\ stdout = ResponseLine(FieldText("kind", "symbol", "symbol"),
                                 FieldText("name", "symbol", "symbol"),
                                 FieldText("path", "", ""))

\* C4 as amended: in a document that json.load decodes, a null name, kind or
\* path is no error, but it does not resolve as a missing one does: the field is
\* put into summary and purpose as the text None; only an absent field takes
\* its default.
NullFieldPrintsNone ==
    (Exited /\ WithinLimits /\ SomeFieldNull) =>
        /\ status = 0
        /\ stdout = ResponseLine(FieldText("kind", "symbol", "None"),
                                 FieldText("name", "symbol", "None"),
                                 FieldText("path", "", "None"))

NullNameWitness ==
    /\ Exited
    /\ sent = DictOf(<<<<"input", DictOf(<<<<"symbol",
                  DictOf(<<<<"name", None>>, <<"path", PyStr("pkg/widget.py")>>>>)>>>>)>>>>)
    /\ stdout = ResponseLine("symbol", "None", "pkg/widget.py")

\* C5 as claimed: when the text on standard input is no JSON, the process ends
\* with a nonzero status, and at no moment of the run has anything been written
\* to standard output.
MalformedFailsSilently ==
    (sent = Garbage \/ ~StrictJson(sent)) =>
        /\ stdout = ""
        /\ Exited => status # 0

\* C6: every run ends, and ends in one of two outcomes: one complete response
\* object written and success, or nothing written and failure.  On the way the
\* output is empty or that one object, and a failing run has written nothing.
AllOrNothing ==
    /\ ~Exited => ENABLED Next /\ status = -1
    /\ stdout # "" => FourStringKeys(response) /\ stdout = ObjectLine(response)
    /\ Exited => \/ EmittedOne /\ stderr = ""
                 \/ FailedSilently /\ stderr # ""

SingleObjectWitness ==
    /\ Exited
    /\ EmittedOne
    /\ sent = DictOf(<<<<"input", DictOf(<<<<"symbol", PyList(<<>>)>>>>)>>>>)

\* C10 as claimed: the defaulting of `input` and of `symbol` is by truthiness.
\* A falsy value there (null, false, 0, "", [], {}) gives the all-defaults
\* response; a truthy value there that is no object, and a document that is no
\* object, make the Responder fail with nothing written.
FalsyAlwaysDefaults ==
    Exited =>
        /\ (sent.t = "dict" /\ Member(sent, "input") \in FalsyJson)
              => status = 0 /\ stdout = DefaultsLine
        /\ (sent.t = "dict" /\ Member(sent, "input").t = "dict" /\ SentSymbol \in FalsyJson)
              => status = 0 /\ stdout = DefaultsLine
        /\ (sent.t = "dict" /\ TruthyNonObject(Member(sent, "input")))
              => FailedSilently
        /\ (sent.t = "dict" /\ Member(sent, "input").t = "dict" /\ TruthyNonObject(SentSymbol))
              => FailedSilently
        /\ (sent # Garbage /\ sent.t # "dict")
              => FailedSilently

\* C10 as amended: in a document that json.load decodes, a falsy value at
\* `input` or `symbol` gives the all-defaults response; in every document, a
\* truthy value there that is no object, and a document that is no object, make
\* the Responder fail with nothing written, with AttributeError when json.load
\* decoded the document.
DefaultingByTruthiness ==
    Exited =>
        /\ (WithinLimits /\ sent.t = "dict" /\ Member(sent, "input") \in FalsyJson)
              => status = 0 /\ stdout = DefaultsLine
        /\ (WithinLimits /\ sent.t = "dict" /\ Member(sent, "input").t = "dict"
                /\ SentSymbol \in FalsyJson)
              => status = 0 /\ stdout = DefaultsLine
        /\ (sent.t = "dict" /\ TruthyNonObject(Member(sent, "input")))
              => FailedSilently /\ (WithinLimits => stderr = "AttributeError")
        /\ (sent.t = "dict" /\ Member(sent, "input").t = "dict" /\ TruthyNonObject(SentSymbol))
              => FailedSilently /\ (WithinLimits => stderr = "AttributeError")
        /\ (sent # Garbage /\ sent.t # "dict")
              => FailedSilently /\ (WithinLimits => stderr = "AttributeError")

FalsyNotNullWitness ==
    /\ Exited
    /\ sent = DictOf(<<<<"input", DictOf(<<<<"symbol", PyInt(0)>>>>)>>>>)
    /\ status = 0
    /\ stdout = DefaultsLine

----------------------------------------------------------------------------
(* normalize and Runner.run: edge_cases.py, lines 5-15.                    *)

\* the Responder is not running
IdleAgent ==
    /\ sent = Garbage /\ stdin = <<>> /\ pc = "idle"
    /\ request = Unbound /\ symbol = Unbound /\ name = Unbound /\ kind = Unbound
    /\ path = Unbound /\ response = Unbound
    /\ stdout = "" /\ stderr = "" /\ status = -1

\* the characters of the strings tried: two kinds of whitespace, the hyphen, the
\* underscore, a letter, and a letter whose uppercase is two letters
Chars == {" ", "\n", "-", "_", "a", "ß"}

\* the characters of the model for which str.isspace() holds
Whitespace == {" ", "\t", "\n", "\r"}

RECURSIVE StringsOfLength(_)
StringsOfLength(n) ==
    IF n = 0 THEN {<<>>}
    ELSE {<<c>> \o t : c \in Chars, t \in StringsOfLength(n - 1)}

Strings == UNION {StringsOfLength(n) : n \in 0..MaxLen}

RECURSIVE LStrip(_)
\* the leading whitespace taken off, character by character
LStrip(str) ==
    IF str # <<>> /\ Head(str) \in Whitespace THEN LStrip(Tail(str)) ELSE str

RECURSIVE RStrip(_)
\* the trailing whitespace taken off, character by character
RStrip(str) ==
    IF str # <<>> /\ str[Len(str)] \in Whitespace
    THEN RStrip(SubSeq(str, 1, Len(str) - 1))
    ELSE str

\* str.strip()
Strip(str) == RStrip(LStrip(str))

\* str.replace(old, new) for a one-character old and new
Replace(str, old, new) == [i \in 1..Len(str) |-> IF str[i] = old THEN new ELSE str[i]]

\* the uppercase of one character: one character, or two for the sharp s
UpperChar(c) ==
    CASE c = "a" -> <<"A">>
      [] c = "ß" -> <<"S", "S">>
      [] OTHER   -> <<c>>

RECURSIVE Upper(_)
\* str.upper()
Upper(str) == IF str = <<>> THEN <<>> ELSE UpperChar(Head(str)) \o Upper(Tail(str))

\* a slip for normalize: the strip left out
NormalizeWithoutStrip(val) == Replace(val, "-", "_")

\* lines 13-15: def normalize(value)
normalize(val) ==
    LET text == Strip(val)
    IN  Replace(text, "-", "_")

\* a slip for Runner.run: `value.upper()`, the argument in place of cleaned
RunUpperOfValue(val) == Upper(val)

\* lines 8-10: def run(self, value)
Runner_run(val) ==
    LET cleaned == normalize(val)
    IN  Upper(cleaned)

TextInit ==
    /\ fn \in {"normalize", "run"}
    /\ value \in Strings
    /\ rets = <<>>

\* the argument of the next call: the first string, then the last result
NextArg == IF rets = <<>> THEN value ELSE rets[Len(rets)]

\* a call of normalize
CallNormalize ==
    /\ fn = "normalize"
    /\ Len(rets) < MaxApply
    /\ rets' = Append(rets, normalize(NextArg))
    /\ UNCHANGED <<fn, value>>
    /\ UNCHANGED <<agentVars, pathVars>>

\* a call of Runner().run
CallRun ==
    /\ fn = "run"
    /\ Len(rets) < MaxApply
    /\ rets' = Append(rets, Runner_run(NextArg))
    /\ UNCHANGED <<fn, value>>
    /\ UNCHANGED <<agentVars, pathVars>>

InitText == IdleAgent /\ TextInit /\ IdlePath

NextText == CallNormalize \/ CallRun

SpecText == InitText /\ [][NextText]_vars

----------------------------------------------------------------------------
(* Properties of normalize and Runner.run.                                 *)

\* no whitespace at either end
Trimmed(str) == str = <<>> \/ (str[1] \notin Whitespace /\ str[Len(str)] \notin Whitespace)

HyphenFree(str) == \A i \in 1..Len(str) : str[i] # "-"

\* the positions of str that hold no whitespace
Inked(str) == {i \in 1..Len(str) : str[i] \notin Whitespace}

\* what the contract asks of normalize: str from its first to its last character
\* that is no whitespace, every hyphen an underscore
Cleaned(str) ==
    IF Inked(str) = {} THEN <<>>
    ELSE LET lo == CHOOSE i \in Inked(str) : \A j \in Inked(str) : i <= j
             hi == CHOOSE i \in Inked(str) : \A j \in Inked(str) : j <= i
         IN  [i \in 1..(hi - lo + 1) |->
                 IF str[lo + i - 1] = "-" THEN "_" ELSE str[lo + i - 1]]

\* every character is its own uppercase
AllUpper(str) == \A i \in 1..Len(str) : UpperChar(str[i]) = <<str[i]>>

\* C7: for every string s, normalize(s) is s without its leading and trailing
\* whitespace and with each hyphen replaced by an underscore: it has no
\* whitespace at either end and no hyphen; and normalize(normalize(s)) =
\* normalize(s).
NormalizeCleansAndIsIdempotent ==
    (fn = "normalize" /\ rets # <<>>) =>
        /\ rets[1] = Cleaned(value)
        /\ Trimmed(rets[1])
        /\ HyphenFree(rets[1])
        /\ \A i \in 2..Len(rets) : rets[i] = rets[1]

NormalizeTwiceWitness ==
    /\ fn = "normalize"
    /\ value = <<" ", "a", "-", "\n">>
    /\ Len(rets) >= 2
    /\ rets[1] = <<"a", "_">>
    /\ rets[2] = <<"a", "_">>

\* C8: for every string s, Runner.run(s) is normalize(s) in uppercase; the result
\* is uppercase, free of hyphens and without surrounding whitespace, and
\* Runner.run(Runner.run(s)) = Runner.run(s).
RunUppercasesAndIsIdempotent ==
    (fn = "run" /\ rets # <<>>) =>
        /\ rets[1] = Upper(Cleaned(value))
        /\ AllUpper(rets[1])
        /\ HyphenFree(rets[1])
        /\ Trimmed(rets[1])
        /\ \A i \in 2..Len(rets) : rets[i] = rets[1]

RunTwiceWitness ==
    /\ fn = "run"
    /\ value = <<"\n", "ß", "-", "a">>
    /\ Len(rets) >= 2
    /\ rets[1] = <<"S", "S", "_", "A">>
    /\ rets[2] = <<"S", "S", "_", "A">>

----------------------------------------------------------------------------
(* use_path: edge_cases.py, lines 18-19.  A text is its sequence of        *)
(* characters; a directory is the sequence of the names leading to it.     *)

\* the names a directory may have: a plain one and one that starts with a dot
DirNames == {<<"a">>, <<".", "b">>}

RECURSIVE DirsOfDepth(_)
DirsOfDepth(n) ==
    IF n = 0 THEN {<<>>}
    ELSE {Append(d, nm) : d \in DirsOfDepth(n - 1), nm \in DirNames}

\* the directories there are
Dirs == UNION {DirsOfDepth(n) : n \in 0..MaxDepth}

RECURSIVE Getcwd(_)
\* os.getcwd(): the absolute path of the working directory
Getcwd(dir) ==
    IF dir = <<>> THEN <<"/">>
    ELSE IF Len(dir) = 1 THEN <<"/">> \o dir[1]
    ELSE <<"/">> \o dir[1] \o Getcwd(Tail(dir))

RECURSIVE SplitOn(_, _)
\* text.split(sep)
SplitOn(text, sep) ==
    IF \A i \in 1..Len(text) : text[i] # sep THEN <<text>>
    ELSE LET at == CHOOSE i \in 1..Len(text) :
                       text[i] = sep /\ \A j \in 1..(i - 1) : text[j] # sep
         IN  <<SubSeq(text, 1, at - 1)>> \o SplitOn(SubSeq(text, at + 1, Len(text)), sep)

RECURSIVE LeadingSlashes(_)
LeadingSlashes(text) ==
    IF text # <<>> /\ Head(text) = "/" THEN 1 + LeadingSlashes(Tail(text)) ELSE 0

\* Path(text) on POSIX: the root ("/", or "//" for exactly two leading slashes)
\* and the parts, empty and "." components dropped, ".." kept
PathOf(text) ==
    [root  |-> IF LeadingSlashes(text) = 0 THEN <<>>
               ELSE IF LeadingSlashes(text) = 2 THEN <<"/", "/">>
               ELSE <<"/">>,
     parts |-> SelectSeq(SplitOn(text, "/"), LAMBDA c : c # <<>> /\ c # <<".">>)]

RECURSIVE JoinParts(_)
\* "/".join(parts)
JoinParts(parts) ==
    IF parts = <<>> THEN <<>>
    ELSE IF Len(parts) = 1 THEN parts[1]
    ELSE parts[1] \o <<"/">> \o JoinParts(Tail(parts))

\* str(path): "." for the empty path
PathStr(p) ==
    IF p.root = <<>> /\ p.parts = <<>> THEN <<".">>
    ELSE p.root \o JoinParts(p.parts)

\* lines 18-19: def use_path(), in a process whose working directory is dir
use_path(dir) == PathStr(PathOf(Getcwd(dir)))

PathInit ==
    /\ cwd \in Dirs
    /\ got = <<>>
    /\ nsteps = 0

\* os.chdir(name), by the caller
ChdirDown(nm) ==
    /\ nsteps < MaxChdir
    /\ Len(cwd) < MaxDepth
    /\ cwd' = Append(cwd, nm)
    /\ nsteps' = nsteps + 1
    /\ UNCHANGED got
    /\ UNCHANGED <<agentVars, textVars>>

\* os.chdir(".."), by the caller
ChdirUp ==
    /\ nsteps < MaxChdir
    /\ cwd # <<>>
    /\ cwd' = SubSeq(cwd, 1, Len(cwd) - 1)
    /\ nsteps' = nsteps + 1
    /\ UNCHANGED got
    /\ UNCHANGED <<agentVars, textVars>>

\* a slip for UsePath: the result of the first call kept and returned again
UsePathMemoized ==
    /\ Len(got) < MaxCalls
    /\ got' = Append(got, IF got = <<>> THEN use_path(cwd) ELSE got[1])
    /\ UNCHANGED <<cwd, nsteps>>
    /\ UNCHANGED <<agentVars, textVars>>

\* a call of use_path
UsePath ==
    /\ Len(got) < MaxCalls
    /\ got' = Append(got, use_path(cwd))
    /\ UNCHANGED <<cwd, nsteps>>
    /\ UNCHANGED <<agentVars, textVars>>

InitPath == IdleAgent /\ IdleText /\ PathInit

NextPath == (\E nm \in DirNames : ChdirDown(nm)) \/ ChdirUp \/ UsePath

SpecPath == InitPath /\ [][NextPath]_vars

----------------------------------------------------------------------------
(* Properties of use_path.                                                 *)

RECURSIVE AbsoluteText(_)
\* the absolute path of a directory: "/" for the root, else "/" and a name for
\* each directory on the way down
AbsoluteText(dir) ==
    IF dir = <<>> THEN <<"/">>
    ELSE (IF Len(dir) = 1 THEN <<>> ELSE AbsoluteText(SubSeq(dir, 1, Len(dir) - 1)))
         \o <<"/">> \o dir[Len(dir)]

\* C9: however changes of the working directory and calls of use_path
\* interleave, each call returns the working directory in effect at that call,
\* not a value kept from an earlier call, and leaves the working directory as
\* it is.
UsePathReadsAtCallTime ==
    [][Len(got') > Len(got) => (got' = Append(got, AbsoluteText(cwd)) /\ cwd' = cwd)]_vars

TwoCallsTwoDirectoriesWitness ==
    /\ Len(got) = 2
    /\ got[1] = <<"/", "a">>
    /\ got[2] = <<"/", "a", "/", ".", "b">>
    /\ cwd = <<<<"a">>, <<".", "b">>>>

====
